---- MODULE Spec2Model ----
(***************************************************************************)
(* Model of source/core/audio/windows/audio_sys_winrt.cpp: the WinRT audio *)
(* capture session.  Three threads of control are modelled: the controller *)
(* thread that issues the audio_* calls one after the other, the platform  *)
(* thread that runs WASAPICapture::ActivateCompleted, and the capture      *)
(* worker running captureThreadProc.  The endpoint device is the           *)
(* environment: it queues packets and sets hBufferReady while the stream   *)
(* is started.                                                             *)
(***************************************************************************)
EXTENDS Integers, FiniteSets, Sequences, TLC

\* ---------------------------------------------------------------- bounds
\* number of capture workers one behaviour may spawn
MaxSpawns == 2
\* number of packets the endpoint buffer may hold
MaxPackets == 1
\* number of audio_setcallbacks calls one behaviour may make with a write
\* callback; the k-th of them passes the callbacks and contexts numbered k
MaxRegs == 1
\* number of audio_set_options calls one behaviour may make that set an option
MaxOptions == 1
\* number of registrations in the behaviours of RaceSpec, where callbacks are
\* registered again while the worker delivers frames
MaxRaceRegs == 2

\* ------------------------------------------------------ program constants
\* the frame count audio_create sets: 10 ms at 16 kHz
DefaultFrameCnt == 160

\* ---------------------------------------------------------------- values
Null == <<"null", 0>>

STOPPED == "AUDIO_STATE_STOPPED"
STARTING == "AUDIO_STATE_STARTING"
RUNNING == "AUDIO_STATE_RUNNING"

OK == "AUDIO_RESULT_OK"
INVALID_ARG == "AUDIO_RESULT_INVALID_ARG"
INVALID_STATE == "AUDIO_RESULT_INVALID_STATE"
ERROR == "AUDIO_RESULT_ERROR"
\* the call has not returned yet
PENDING == "pending"
\* audio_create / audio_destroy return a handle or nothing, not an AUDIO_RESULT
HANDLE == "handle"
NULLHANDLE == "null handle"
VOID == "void"

S_OK == "S_OK"
E_FAIL == "E_FAIL"
UNSET == "unset"

\* the registration slots of AUDIO_SYS_DATA
SlotNames ==
    {"error_cb", "user_errorctx", "input_state_cb", "user_inputctx",
     "output_state_cb", "user_outputctx", "audio_write_cb", "user_write_ctx"}

\* the parameters of audio_setcallbacks
ArgNames ==
    {"output_cb", "output_ctx", "input_cb", "input_ctx",
     "audio_write_cb", "audio_write_ctx", "error_cb", "error_ctx"}

\* the argument lists the application may pass: registration r, with the
\* write callback and the input-state callback possibly null
ArgsOf(r, wnull, inull) ==
    [a \in ArgNames |->
        IF a = "audio_write_cb" /\ wnull THEN Null
        ELSE IF a = "input_cb" /\ inull THEN Null
        ELSE <<a, r>>]

CallArgs(r) ==
    {ArgsOf(r, wnull, inull) : wnull \in BOOLEAN, inull \in BOOLEAN}

NoArgs == [a \in ArgNames |-> Null]

VARIABLES
    \* ---- controller thread
    ctl,            \* position of the controller inside the current call
    op,             \* the call in progress, or the last call made
    result,         \* what that call returned (PENDING until it returns)
    prev,           \* <<op, result>> of the call before it
    eff,            \* what the current/last call did to threads and the client
    seenState,      \* current_input_state as read by the call's state check
    seenExit,       \* how the worker had ended when the call was made ("none": it had not)
    args,           \* arguments of the audio_setcallbacks call in progress, or of the last one
    handle,         \* the AUDIO_SYS_HANDLE the application holds
    \* ---- AUDIO_SYS_DATA
    current_input_state,
    slots,          \* the eight registration slots
    joinable,       \* hCaptureThread.joinable()
    inputFrameCnt,  \* frames per scratch buffer
    hDeviceName,    \* Null, or <<"string", content>>
    optionArg,      \* <<optionName, value>> of the last audio_set_options call
    \* ---- WASAPICapture
    hBufferReady,   \* "null" | "unset" | "set"        (auto-reset event)
    hCaptureThreadShouldExit, \* "null" | "unset" | "set" (auto-reset event)
    pAudioInputClient, \* "null" | "held" | "dangling"
    m_promise,      \* UNSET | S_OK | E_FAIL
    actPc,          \* "none" | "pending" | "returned" | "faulted"
    \* ---- capture worker
    wpc,            \* position of the worker in captureThreadProc
    scratch,        \* audioBuff.pAudioData: "none" | "allocated" | "freed"
    exitCause,      \* how the worker left its loop
    \* ---- native client and endpoint
    streamOn,       \* IAudioClient is started
    packets,        \* packets waiting in the endpoint buffer
    \* ---- process and bookkeeping
    terminated,     \* the process was ended (std::terminate / access violation)
    spawned,        \* capture workers created so far
    registered,     \* audio_setcallbacks calls that passed the argument check
    optionsSet,     \* audio_set_options calls that set an option
    signalsCreated, \* events created by CreateEvent so far
    promiseWrites,  \* number of m_promise.set_value calls
    clientAcq,      \* references to the client taken by the session's code
    clientRel,      \* references to the client given up by the session's code
    exitRuns,       \* times the current worker ran its exit path
    exitStoppedCbs, \* STOPPED notifications the current worker's exit path made
    firstEvent,     \* the first thing the current worker told the application
    lastEvent,      \* the last thing the current worker told the application
    wcb,            \* the worker's copy of audio_write_cb for the call at line 346
    lastWrite       \* <<callback, context>> of the last frame-write invocation

vars ==
    <<ctl, op, result, prev, eff, seenState, seenExit, args, handle,
      current_input_state, slots, joinable, inputFrameCnt, hDeviceName, optionArg,
      hBufferReady, hCaptureThreadShouldExit, pAudioInputClient, m_promise, actPc,
      wpc, scratch, exitCause, streamOn, packets,
      terminated, spawned, registered, optionsSet, signalsCreated, promiseWrites,
      clientAcq, clientRel, exitRuns, exitStoppedCbs, firstEvent, lastEvent, wcb, lastWrite>>

ctlVars == <<ctl, op, result, prev, eff, seenState, seenExit, args, handle>>
workerVars ==
    <<wpc, scratch, exitCause, exitRuns, exitStoppedCbs, firstEvent, lastEvent, wcb,
      lastWrite>>
captureVars == <<hBufferReady, hCaptureThreadShouldExit, pAudioInputClient, m_promise, actPc>>
countVars == <<signalsCreated, promiseWrites, clientAcq, clientRel, registered>>
optionVars == <<inputFrameCnt, hDeviceName, optionArg, optionsSet>>

\* the state before audio_create: no session, no capture object, no worker
Init ==
    /\ ctl = "idle"
    /\ op = "none"
    /\ result = "none"
    /\ prev = <<"none", "none">>
    /\ eff = {}
    /\ seenState = "none"
    /\ seenExit = "none"
    /\ args = NoArgs
    /\ handle = "none"
    /\ current_input_state = STOPPED
    /\ slots = [s \in SlotNames |-> Null]
    /\ joinable = FALSE
    /\ inputFrameCnt = 0
    /\ hDeviceName = Null
    /\ optionArg = <<"none", Null>>
    /\ optionsSet = 0
    /\ hBufferReady = "null"
    /\ hCaptureThreadShouldExit = "null"
    /\ pAudioInputClient = "null"
    /\ m_promise = UNSET
    /\ actPc = "none"
    /\ wpc = "none"
    /\ scratch = "none"
    /\ exitCause = "none"
    /\ streamOn = FALSE
    /\ packets = 0
    /\ terminated = FALSE
    /\ spawned = 0
    /\ registered = 0
    /\ signalsCreated = 0
    /\ promiseWrites = 0
    /\ clientAcq = 0
    /\ clientRel = 0
    /\ exitRuns = 0
    /\ exitStoppedCbs = 0
    /\ firstEvent = "none"
    /\ lastEvent = "none"
    /\ wcb = Null
    /\ lastWrite = <<Null, Null>>

\* the controller is between calls and may make the next one
CanCall == ctl = "idle" /\ ~terminated

\* bookkeeping of a call that begins: o is the call, r its result so far
Begin(o, r, e, seen) ==
    /\ op' = o
    /\ result' = r
    /\ prev' = <<op, result>>
    /\ eff' = e
    /\ seenState' = seen
    /\ seenExit' = IF wpc = "done" THEN exitCause ELSE "none"

\* the capture worker exists and has not left captureThreadProc
WorkerLive == wpc \notin {"none", "done", "threw"}


\* ------------------------------------------------- creation and activation

\* `delete` of the AUDIO_SYS_DATA (lines 202 and 265).  Members are destroyed
\* in reverse order of declaration: spCapture first, which runs ~WASAPICapture
\* (both events are closed) and the destructor of the ComPtr pAudioInputClient
\* (one more Release when it holds a pointer; on a pointer whose object is
\* already gone that is a use after free, which may or may not fault); then
\* hCaptureThread, whose destructor calls std::terminate when it is joinable.
DeleteSession ==
    /\ hBufferReady' = "null"
    /\ hCaptureThreadShouldExit' = "null"
    /\ pAudioInputClient' = "null"
    /\ clientRel' = IF pAudioInputClient = "null" THEN clientRel ELSE clientRel + 1
    /\ \E fault \in (IF pAudioInputClient = "dangling" THEN BOOLEAN ELSE {FALSE}) :
          terminated' = (fault \/ joinable)

\* audio_create up to the wait on the future: the session is allocated and
\* zeroed, WASAPICapture's constructor creates the two events (n of the two
\* CreateEvent calls succeed; on a failure both handles end up null), and the
\* activation request is issued.  A rejected request makes create return null
\* at once.
audio_create ==
    /\ CanCall
    /\ handle = "none"
    /\ current_input_state' = STOPPED
    /\ slots' = [s \in SlotNames |-> Null]
    /\ joinable' = FALSE
    /\ \E n \in 0..2, accepted \in BOOLEAN :
          /\ signalsCreated' = signalsCreated + n
          /\ IF accepted
             THEN /\ Begin("create", PENDING, {}, "none")
                  /\ ctl' = "create_wait"
                  /\ actPc' = "pending"
                  /\ hBufferReady' = IF n = 2 THEN "unset" ELSE "null"
                  /\ hCaptureThreadShouldExit' = IF n = 2 THEN "unset" ELSE "null"
                  /\ handle' = handle
                  /\ UNCHANGED <<pAudioInputClient, clientRel, terminated>>
             ELSE /\ Begin("create", NULLHANDLE, {}, "none")
                  /\ ctl' = "idle"
                  /\ actPc' = "none"
                  /\ handle' = "null"
                  /\ DeleteSession
    /\ inputFrameCnt' = DefaultFrameCnt
    /\ hDeviceName' = Null
    /\ UNCHANGED <<args, m_promise, workerVars, streamOn, packets, spawned,
                   registered, optionArg, optionsSet, promiseWrites, clientAcq>>

\* the paths through the completion handler
ActPaths ==
    {"outer_failed", "inner_failed", "null_interface",
     "initialize_failed", "seteventhandle_failed", "success"}

\* paths on which hr is a failure while pAudioInputClient is still null
NoClientPaths == {"outer_failed", "inner_failed", "null_interface"}

\* WASAPICapture::ActivateCompleted, run by the platform on its own thread.
\* At Exit a failed hr calls pAudioInputClient->Release(): with the client
\* obtained that gives up the reference CopyTo took (the ComPtr keeps the
\* pointer, whose object goes when punkAudioInterface is destroyed); with the
\* client still null it is a call through a null pointer, which either faults
\* (the promise is never set) or goes on to set_value.
ActivateCompleted ==
    /\ actPc = "pending"
    /\ ~terminated
    /\ \E path \in ActPaths :
          \/ /\ path \in NoClientPaths
             /\ \E faults \in BOOLEAN :
                   IF faults
                   THEN /\ terminated' = TRUE
                        /\ actPc' = "faulted"
                        /\ UNCHANGED <<m_promise, promiseWrites>>
                   ELSE /\ terminated' = terminated
                        /\ actPc' = "returned"
                        /\ m_promise' = E_FAIL
                        /\ promiseWrites' = promiseWrites + 1
             /\ UNCHANGED <<pAudioInputClient, clientAcq, clientRel>>
          \/ /\ path \in {"initialize_failed", "seteventhandle_failed"}
             /\ pAudioInputClient' = "dangling"
             /\ clientAcq' = clientAcq + 1
             /\ clientRel' = clientRel + 1
             /\ m_promise' = E_FAIL
             /\ promiseWrites' = promiseWrites + 1
             /\ actPc' = "returned"
             /\ terminated' = terminated
          \/ /\ path = "success"
             /\ pAudioInputClient' = "held"
             /\ clientAcq' = clientAcq + 1
             /\ clientRel' = clientRel
             /\ m_promise' = S_OK
             /\ promiseWrites' = promiseWrites + 1
             /\ actPc' = "returned"
             /\ terminated' = terminated
    /\ UNCHANGED <<ctlVars, current_input_state, slots, joinable, hBufferReady,
                   hCaptureThreadShouldExit, workerVars, streamOn, packets,
                   spawned, registered, signalsCreated>>
    /\ UNCHANGED optionVars

\* audio_create after future.wait(): returns the handle when the promise holds
\* a success, deletes the session and returns null otherwise.
audio_create_return ==
    /\ ctl = "create_wait"
    /\ ~terminated
    /\ m_promise # UNSET
    /\ ctl' = "idle"
    /\ IF m_promise = S_OK
       THEN /\ handle' = "valid"
            /\ result' = HANDLE
            /\ UNCHANGED <<hBufferReady, hCaptureThreadShouldExit, pAudioInputClient,
                           clientRel, terminated>>
       ELSE /\ handle' = "null"
            /\ result' = NULLHANDLE
            /\ DeleteSession
    /\ UNCHANGED <<op, prev, eff, seenState, seenExit, args, current_input_state, slots,
                   joinable, m_promise, actPc, workerVars, streamOn, packets,
                   spawned, registered, signalsCreated, promiseWrites, clientAcq>>
    /\ UNCHANGED optionVars


\* ------------------------------------------------------ controller calls

\* the handle the application passes to a call: the one audio_create gave
\* it, which is NULL after a failed create
HandleArgs == {handle} \cap {"valid", "null"}

\* a call that returns at once with result r, having done nothing
ReturnAtOnce(o, r, seen) ==
    /\ Begin(o, r, {}, seen)
    /\ ctl' = "idle"

\* the assignments of audio_setcallbacks, by source line: <<slot, parameter>>
SetcbAssign(line) ==
    CASE line = 284 -> <<"error_cb", "error_cb">>
      [] line = 285 -> <<"user_errorctx", "error_ctx">>
      [] line = 286 -> <<"user_errorctx", "error_cb">>
      [] line = 287 -> <<"input_state_cb", "input_cb">>
      [] line = 288 -> <<"user_inputctx", "input_ctx">>
      [] line = 289 -> <<"output_state_cb", "output_cb">>
      [] line = 290 -> <<"user_outputctx", "output_ctx">>
      [] line = 291 -> <<"audio_write_cb", "audio_write_cb">>
      [] line = 292 -> <<"user_write_ctx", "audio_write_ctx">>

SetcbLines == 284..292

SetcbCtl(line) == "setcb_" \o ToString(line)

\* line 280 without the test of the write callback
SetcbAccepted_NoWriteTest(h, a) == h # "null"

\* audio_setcallbacks, line 280: the call registers when the handle and the
\* write callback are both non-null
SetcbAccepted(h, a) == h # "null" /\ a["audio_write_cb"] # Null

\* audio_setcallbacks, the argument check (lines 279-283) and, when it fails,
\* the return of AUDIO_RESULT_INVALID_ARG (line 296)
audio_setcallbacksN(limit) ==
    /\ CanCall
    /\ \E h \in HandleArgs, a \in CallArgs(registered + 1) :
          /\ args' = a
          /\ IF SetcbAccepted(h, a)
             THEN /\ registered < limit
                  /\ Begin("setcallbacks", PENDING, {}, "none")
                  /\ ctl' = SetcbCtl(284)
                  /\ registered' = registered + 1
             ELSE /\ ReturnAtOnce("setcallbacks", INVALID_ARG, "none")
                  /\ registered' = registered
    /\ UNCHANGED <<handle, current_input_state, slots, joinable, captureVars,
                   workerVars, streamOn, packets, terminated, spawned,
                   signalsCreated, promiseWrites, clientAcq, clientRel>>
    /\ UNCHANGED optionVars

\* audio_setcallbacks in a behaviour that registers at most MaxRegs times
audio_setcallbacks == audio_setcallbacksN(MaxRegs)

\* audio_setcallbacks, one assignment (lines 284-292); the last one is followed
\* by the return of AUDIO_RESULT_OK
audio_setcallbacks_assign ==
    /\ ~terminated
    /\ \E line \in SetcbLines :
          /\ ctl = SetcbCtl(line)
          /\ slots' = [slots EXCEPT ![SetcbAssign(line)[1]] = args[SetcbAssign(line)[2]]]
          /\ IF line = 292
             THEN /\ ctl' = "idle"
                  /\ result' = OK
             ELSE /\ ctl' = SetcbCtl(line + 1)
                  /\ result' = result
    /\ UNCHANGED <<op, prev, eff, seenState, seenExit, args, handle, current_input_state,
                   joinable, captureVars, workerVars, streamOn, packets, terminated,
                   spawned, countVars>>
    /\ UNCHANGED optionVars

\* line 394 without the test of current_input_state
StartRefused_NoStateTest ==
    \/ slots["audio_write_cb"] = Null
    \/ pAudioInputClient = "null"

\* audio_input_start, line 394: the conditions that make start refuse
StartRefused ==
    \/ slots["audio_write_cb"] = Null
    \/ pAudioInputClient = "null"
    \/ current_input_state = RUNNING

\* audio_input_start, the checks (lines 389-397)
audio_input_start ==
    /\ CanCall
    /\ spawned < MaxSpawns
    /\ \E h \in HandleArgs :
          IF h = "null" \/ hBufferReady = "null"
          THEN ReturnAtOnce("start", INVALID_ARG, "none")
          ELSE IF StartRefused
          THEN ReturnAtOnce("start", INVALID_STATE, current_input_state)
          ELSE /\ Begin("start", PENDING, {}, current_input_state)
               /\ ctl' = "start_spawn"
    /\ UNCHANGED <<args, handle, current_input_state, slots, joinable, captureVars,
                   workerVars, streamOn, packets, terminated, spawned, countVars>>
    /\ UNCHANGED optionVars

\* line 398 without the test of joinable()
StartSpawns_Always == TRUE

\* audio_input_start, line 398: a worker is created only for a thread handle
\* that is not joinable
StartSpawns == ~joinable

\* audio_input_start, lines 398-402
audio_input_start_spawn ==
    /\ ctl = "start_spawn"
    /\ ~terminated
    /\ ctl' = "start_native"
    /\ IF StartSpawns
       THEN /\ joinable' = TRUE
            /\ wpc' = "entry"
            /\ scratch' = "none"
            /\ exitCause' = "none"
            /\ exitRuns' = 0
            /\ exitStoppedCbs' = 0
            /\ firstEvent' = "none"
            /\ lastEvent' = "none"
            /\ wcb' = Null
            /\ lastWrite' = <<Null, Null>>
            /\ spawned' = spawned + 1
            /\ eff' = eff \cup {"spawn"}
       ELSE UNCHANGED <<joinable, workerVars, spawned, eff>>
    /\ UNCHANGED <<op, result, prev, seenState, seenExit, args, handle, current_input_state,
                   slots, captureVars, streamOn, packets, terminated, countVars>>
    /\ UNCHANGED optionVars

\* audio_input_start, lines 405-409: the native Start and the return
audio_input_start_native ==
    /\ ctl = "start_native"
    /\ ~terminated
    /\ ctl' = "idle"
    /\ eff' = eff \cup {"Start"}
    /\ \E started \in BOOLEAN :
          /\ streamOn' = (streamOn \/ started)
          /\ result' = IF started THEN OK ELSE ERROR
    /\ UNCHANGED <<op, prev, seenState, seenExit, args, handle, current_input_state, slots,
                   joinable, captureVars, workerVars, packets, terminated, spawned,
                   countVars>>
    /\ UNCHANGED optionVars

\* line 418 with the test inverted: stop refuses a RUNNING session only
StopRefused_Inverted == current_input_state = RUNNING

\* audio_input_stop, line 418: the condition that makes stop refuse
StopRefused == current_input_state # RUNNING

\* audio_input_stop, the checks (lines 415-421 and 436-439)
audio_input_stop ==
    /\ CanCall
    /\ \E h \in HandleArgs :
          IF h = "null"
          THEN ReturnAtOnce("stop", INVALID_ARG, "none")
          ELSE IF StopRefused
          THEN ReturnAtOnce("stop", INVALID_STATE, current_input_state)
          ELSE /\ Begin("stop", PENDING, {}, current_input_state)
               /\ ctl' = "stop_native"
    /\ UNCHANGED <<args, handle, current_input_state, slots, joinable, captureVars,
                   workerVars, streamOn, packets, terminated, spawned, countVars>>
    /\ UNCHANGED optionVars

\* audio_input_stop, line 424: the native Stop
audio_input_stop_native ==
    /\ ctl = "stop_native"
    /\ ~terminated
    /\ ctl' = "stop_signal"
    /\ streamOn' = FALSE
    /\ eff' = eff \cup {"Stop"}
    /\ UNCHANGED <<op, result, prev, seenState, seenExit, args, handle, current_input_state,
                   slots, joinable, captureVars, workerVars, packets, terminated,
                   spawned, countVars>>
    /\ UNCHANGED optionVars

\* audio_input_stop, line 427: SetEvent on the shutdown event
audio_input_stop_signal ==
    /\ ctl = "stop_signal"
    /\ ~terminated
    /\ ctl' = "stop_join"
    /\ hCaptureThreadShouldExit' = "set"
    /\ eff' = eff \cup {"SetEvent"}
    /\ UNCHANGED <<op, result, prev, seenState, seenExit, args, handle, current_input_state,
                   slots, joinable, hBufferReady, pAudioInputClient, m_promise, actPc,
                   workerVars, streamOn, packets, terminated, spawned, countVars>>
    /\ UNCHANGED optionVars

\* lines 428-431 left out: stop returns without joining
StopJoins_Never == FALSE

\* audio_input_stop, line 428: the thread handle is joined when it is joinable
StopJoins == joinable

\* audio_input_stop, lines 428-433: join blocks until the worker has left
\* captureThreadProc; then AUDIO_RESULT_OK is returned
audio_input_stop_join ==
    /\ ctl = "stop_join"
    /\ ~terminated
    /\ IF StopJoins
       THEN /\ wpc = "done"
            /\ joinable' = FALSE
            /\ eff' = eff \cup {"join"}
       ELSE UNCHANGED <<joinable, eff>>
    /\ ctl' = "idle"
    /\ result' = OK
    /\ UNCHANGED <<op, prev, seenState, seenExit, args, handle, current_input_state, slots,
                   captureVars, workerVars, streamOn, packets, terminated, spawned,
                   countVars>>
    /\ UNCHANGED optionVars

\* audio_destroy, lines 247-263: a null handle does nothing; otherwise the client
\* is Released by hand (the ComPtr keeps the pointer).  The render events are
\* never created in this file, so lines 252-258 do nothing.
audio_destroy ==
    /\ CanCall
    /\ \E h \in HandleArgs :
          IF h = "null"
          THEN /\ ReturnAtOnce("destroy", VOID, "none")
               /\ UNCHANGED <<pAudioInputClient, clientRel, streamOn, hDeviceName>>
          ELSE /\ Begin("destroy", PENDING, {"releaseClient"}, "none")
               /\ ctl' = "destroy_delete"
               /\ pAudioInputClient' = "dangling"
               /\ clientRel' = clientRel + 1
               /\ streamOn' = FALSE
               /\ hDeviceName' = Null
    /\ UNCHANGED <<args, handle, current_input_state, slots, joinable, hBufferReady,
                   hCaptureThreadShouldExit, m_promise, actPc, workerVars, packets,
                   terminated, spawned, registered, signalsCreated, promiseWrites, clientAcq,
                   inputFrameCnt, optionArg, optionsSet>>

\* audio_destroy, line 265: delete audioData
audio_destroy_delete ==
    /\ ctl = "destroy_delete"
    /\ ~terminated
    /\ ctl' = "idle"
    /\ result' = VOID
    /\ eff' = eff \cup {"delete"}
    /\ handle' = "freed"
    /\ DeleteSession
    /\ UNCHANGED <<op, prev, seenState, seenExit, args, current_input_state, slots, joinable,
                   m_promise, actPc, workerVars, streamOn, packets, spawned,
                   registered, signalsCreated, promiseWrites, clientAcq>>
    /\ UNCHANGED optionVars


\* the option names the application may pass: AUDIO_OPTION_INPUT_FRAME_COUNT,
\* AUDIO_OPTION_DEVICENAME, and a name that is neither
OptionNames == {"frame_count", "devicename", "other"}

\* the values the application may pass: NULL, or a pointer to the int 320 for
\* the frame count and to the string numbered 320 for the device name
OptionValues == {Null, <<"value", 320>>}

\* the content hDeviceName gets from value; the empty string for NULL
DeviceNameOf(value) == <<"string", value[2]>>

\* the strcmp tests pass every name
OptionRecognised_Any(name) == TRUE

\* audio_set_options, lines 450 and 458: the two strcmp tests
OptionRecognised(name) == name \in {"frame_count", "devicename"}

\* audio_set_options.  The handle and the name are tested first; the frame
\* count is stored as it comes; the device name is constructed when there is
\* none yet (STRING_construct returns NULL when it has no memory, and the call
\* falls through to INVALID_ARG) and copied over the old one otherwise
\* (the result of STRING_copy is not looked at).
audio_set_options ==
    /\ CanCall
    /\ \E h \in HandleArgs, name \in OptionNames, value \in OptionValues, ok \in BOOLEAN :
          /\ optionArg' = <<name, value>>
          /\ IF h = "null" \/ ~OptionRecognised(name)
             THEN /\ ReturnAtOnce("set_options", INVALID_ARG, "none")
                  /\ UNCHANGED <<inputFrameCnt, hDeviceName, optionsSet>>
             ELSE /\ optionsSet < MaxOptions
                  /\ optionsSet' = optionsSet + 1
                  /\ IF name = "frame_count"
                     THEN /\ inputFrameCnt' = IF value = Null THEN 0 ELSE value[2]
                          /\ hDeviceName' = hDeviceName
                          /\ ReturnAtOnce("set_options", OK, "none")
                     ELSE IF hDeviceName = Null
                     THEN /\ hDeviceName' = IF ok THEN DeviceNameOf(value) ELSE Null
                          /\ inputFrameCnt' = inputFrameCnt
                          /\ ReturnAtOnce("set_options", IF ok THEN OK ELSE INVALID_ARG, "none")
                     ELSE /\ hDeviceName' = IF ok THEN DeviceNameOf(value) ELSE hDeviceName
                          /\ inputFrameCnt' = inputFrameCnt
                          /\ ReturnAtOnce("set_options", OK, "none")
    /\ UNCHANGED <<args, handle, current_input_state, slots, joinable, captureVars,
                   workerVars, streamOn, packets, terminated, spawned, countVars>>


\* --------------------------------------------------------- capture worker

\* the worker tells the application e: a state notification or a frame
Notify(e) ==
    /\ firstEvent' = IF firstEvent = "none" THEN e ELSE firstEvent
    /\ lastEvent' = e

\* the input-state callback is invoked with e when one is registered
NotifyState(e) ==
    IF slots["input_state_cb"] # Null
    THEN Notify(e)
    ELSE UNCHANGED <<firstEvent, lastEvent>>

\* `goto Exit`
GotoExit(cause) ==
    /\ wpc' = "exit"
    /\ exitCause' = cause

\* captureThreadProc, lines 315-318: STARTING is notified
capture_entry ==
    /\ wpc = "entry"
    /\ ~terminated
    /\ wpc' = "set_running"
    /\ NotifyState(STARTING)
    /\ UNCHANGED <<ctlVars, current_input_state, slots, joinable, captureVars,
                   scratch, exitCause, exitRuns, exitStoppedCbs, wcb, lastWrite,
                   streamOn, packets, terminated, spawned, countVars>>
    /\ UNCHANGED optionVars

\* line 319 storing the state that line 317 has just reported
capture_set_running_Starting ==
    /\ wpc = "set_running"
    /\ ~terminated
    /\ wpc' = "get_service"
    /\ current_input_state' = STARTING
    /\ UNCHANGED <<ctlVars, slots, joinable, captureVars, scratch, exitCause,
                   exitRuns, exitStoppedCbs, firstEvent, lastEvent, wcb, lastWrite,
                   streamOn, packets, terminated, spawned, countVars>>
    /\ UNCHANGED optionVars

\* captureThreadProc, line 319
capture_set_running ==
    /\ wpc = "set_running"
    /\ ~terminated
    /\ wpc' = "get_service"
    /\ current_input_state' = RUNNING
    /\ UNCHANGED <<ctlVars, slots, joinable, captureVars, scratch, exitCause,
                   exitRuns, exitStoppedCbs, firstEvent, lastEvent, wcb, lastWrite,
                   streamOn, packets, terminated, spawned, countVars>>
    /\ UNCHANGED optionVars

\* captureThreadProc, lines 321-322: GetService succeeds or fails; on a client
\* that audio_destroy has already released the call may also fault
capture_get_service ==
    /\ wpc = "get_service"
    /\ ~terminated
    /\ \E out \in {"ok", "failed"} \cup
                  (IF pAudioInputClient = "dangling" THEN {"fault"} ELSE {}) :
          /\ terminated' = (out = "fault")
          /\ IF out = "ok"
             THEN wpc' = "alloc" /\ exitCause' = exitCause
             ELSE GotoExit("error")
    /\ UNCHANGED <<ctlVars, current_input_state, slots, joinable, captureVars,
                   scratch, exitRuns, exitStoppedCbs, firstEvent, lastEvent, wcb,
                   lastWrite, streamOn, packets, spawned, countVars>>
    /\ UNCHANGED optionVars

\* the outcomes of `new BYTE[totalSize]` at line 326: memory is obtained; or
\* it is not, and operator new[] throws, the exception leaves the thread
\* function and std::terminate ends the process; or, in a build whose
\* operator new returns null, the test at line 327 goes to Exit
AllocOutcomes == {"ok", "null", "throw"}

\* captureThreadProc, lines 324-330
capture_alloc ==
    /\ wpc = "alloc"
    /\ ~terminated
    /\ \E out \in AllocOutcomes :
          CASE out = "ok" ->
                 /\ wpc' = "wait"
                 /\ scratch' = "allocated"
                 /\ UNCHANGED <<exitCause, terminated>>
            [] out = "null" ->
                 /\ GotoExit("alloc")
                 /\ UNCHANGED <<scratch, terminated>>
            [] out = "throw" ->
                 /\ wpc' = "threw"
                 /\ terminated' = TRUE
                 /\ UNCHANGED <<scratch, exitCause>>
    /\ UNCHANGED <<ctlVars, current_input_state, slots, joinable, captureVars,
                   exitRuns, exitStoppedCbs, firstEvent, lastEvent, wcb, lastWrite,
                   streamOn, packets, spawned, countVars>>
    /\ UNCHANGED optionVars

\* captureThreadProc, lines 334-336 and 363-366: the wait on the two auto-reset
\* events; index 0, the shutdown event, wins when both are set
capture_wait ==
    /\ wpc = "wait"
    /\ ~terminated
    /\ \/ /\ hCaptureThreadShouldExit = "set"
          /\ hCaptureThreadShouldExit' = "unset"
          /\ hBufferReady' = hBufferReady
          /\ GotoExit("shutdown")
       \/ /\ hCaptureThreadShouldExit # "set"
          /\ hBufferReady = "set"
          /\ hBufferReady' = "unset"
          /\ hCaptureThreadShouldExit' = hCaptureThreadShouldExit
          /\ wpc' = "drain"
          /\ exitCause' = exitCause
    /\ UNCHANGED <<ctlVars, current_input_state, slots, joinable, pAudioInputClient,
                   m_promise, actPc, scratch, exitRuns, exitStoppedCbs, firstEvent,
                   lastEvent, wcb, lastWrite, streamOn, packets, terminated, spawned,
                   countVars>>
    /\ UNCHANGED optionVars

\* captureThreadProc, lines 339-345: GetNextPacketSize
capture_drain ==
    /\ wpc = "drain"
    /\ ~terminated
    /\ \E ok \in BOOLEAN :
          IF ~ok THEN GotoExit("error")
          ELSE /\ wpc' = IF packets = 0 THEN "wait" ELSE "read_cb"
               /\ exitCause' = exitCause
    /\ UNCHANGED <<ctlVars, current_input_state, slots, joinable, captureVars,
                   scratch, exitRuns, exitStoppedCbs, firstEvent, lastEvent, wcb,
                   lastWrite, streamOn, packets, terminated, spawned, countVars>>
    /\ UNCHANGED optionVars

\* captureThreadProc, line 348: the argument pInput->audio_write_cb is read
capture_read_cb ==
    /\ wpc = "read_cb"
    /\ ~terminated
    /\ wpc' = "deliver"
    /\ wcb' = slots["audio_write_cb"]
    /\ UNCHANGED <<ctlVars, current_input_state, slots, joinable, captureVars,
                   scratch, exitCause, exitRuns, exitStoppedCbs, firstEvent,
                   lastEvent, lastWrite, streamOn, packets, terminated, spawned,
                   countVars>>
    /\ UNCHANGED optionVars

\* captureThreadProc, lines 346-353: the argument pInput->user_write_ctx is
\* read and GetBufferAndCallBackClient either fails or takes one packet and
\* hands it to the write callback, whose result is audio_result
capture_deliver ==
    /\ wpc = "deliver"
    /\ ~terminated
    /\ \E ok \in BOOLEAN, audio_result \in BOOLEAN :
          IF ~ok
          THEN /\ GotoExit("error")
               /\ UNCHANGED <<packets, lastWrite, firstEvent, lastEvent>>
          ELSE /\ packets' = packets - 1
               /\ lastWrite' = <<wcb, slots["user_write_ctx"]>>
               /\ Notify("frame")
               /\ wpc' = IF audio_result THEN "app_stop" ELSE "drain"
               /\ exitCause' = exitCause
    /\ UNCHANGED <<ctlVars, current_input_state, slots, joinable, captureVars,
                   scratch, exitRuns, exitStoppedCbs, wcb, streamOn, terminated,
                   spawned, countVars>>
    /\ UNCHANGED optionVars

\* captureThreadProc, lines 353-360: the callback asked for a stop
capture_app_stop ==
    /\ wpc = "app_stop"
    /\ ~terminated
    /\ wpc' = "drain"
    /\ current_input_state' = STOPPED
    /\ NotifyState("STOPPED in loop")
    /\ UNCHANGED <<ctlVars, slots, joinable, captureVars, scratch, exitCause,
                   exitRuns, exitStoppedCbs, wcb, lastWrite, streamOn, packets,
                   terminated, spawned, countVars>>
    /\ UNCHANGED optionVars

\* captureThreadProc, lines 371-373: the scratch buffer is freed and the
\* persisted state forced to STOPPED
capture_exit ==
    /\ wpc = "exit"
    /\ ~terminated
    /\ wpc' = "exit_cb"
    /\ scratch' = IF scratch = "allocated" THEN "freed" ELSE scratch
    /\ current_input_state' = STOPPED
    /\ exitRuns' = exitRuns + 1
    /\ UNCHANGED <<ctlVars, slots, joinable, captureVars, exitCause,
                   exitStoppedCbs, firstEvent, lastEvent, wcb, lastWrite, streamOn,
                   packets, terminated, spawned, countVars>>
    /\ UNCHANGED optionVars

\* captureThreadProc, lines 374-380: STOPPED is notified and the thread
\* function returns
capture_exit_cb ==
    /\ wpc = "exit_cb"
    /\ ~terminated
    /\ wpc' = "done"
    /\ NotifyState("STOPPED at exit")
    /\ exitStoppedCbs' = IF slots["input_state_cb"] # Null
                         THEN exitStoppedCbs + 1 ELSE exitStoppedCbs
    /\ UNCHANGED <<ctlVars, current_input_state, slots, joinable, captureVars,
                   scratch, exitCause, exitRuns, wcb, lastWrite, streamOn, packets,
                   terminated, spawned, countVars>>
    /\ UNCHANGED optionVars

\* ------------------------------------------------------------- environment

\* the endpoint, initialised with AUDCLNT_STREAMFLAGS_EVENTCALLBACK and bound
\* to hBufferReady: while the stream is started it queues a packet and sets
\* the event
DevicePacket ==
    /\ ~terminated
    /\ streamOn
    /\ pAudioInputClient = "held"
    /\ hBufferReady # "null"
    /\ packets < MaxPackets
    /\ packets' = packets + 1
    /\ hBufferReady' = "set"
    /\ UNCHANGED <<ctlVars, current_input_state, slots, joinable,
                   hCaptureThreadShouldExit, pAudioInputClient, m_promise, actPc,
                   workerVars, streamOn, terminated, spawned, countVars>>
    /\ UNCHANGED optionVars

\* ----------------------------------------------------------- specification

\* the steps of a call in progress
ControllerStep ==
    \/ audio_create_return
    \/ audio_setcallbacks_assign
    \/ audio_input_start_spawn
    \/ audio_input_start_native
    \/ audio_input_stop_native
    \/ audio_input_stop_signal
    \/ audio_input_stop_join
    \/ audio_destroy_delete

\* a new call by the application
ControllerCall ==
    \/ audio_create
    \/ audio_setcallbacks
    \/ audio_input_start
    \/ audio_input_stop
    \/ audio_destroy

\* the steps of captureThreadProc
Worker ==
    \/ capture_entry
    \/ capture_set_running
    \/ capture_get_service
    \/ capture_alloc
    \/ capture_wait
    \/ capture_drain
    \/ capture_read_cb
    \/ capture_deliver
    \/ capture_app_stop
    \/ capture_exit
    \/ capture_exit_cb

Next ==
    \/ ControllerCall
    \/ ControllerStep
    \/ ActivateCompleted
    \/ Worker
    \/ DevicePacket

Spec == Init /\ [][Next]_vars

\* The session with audio_set_options, from creation to the worker's wait for
\* its first packet.  audio_set_options reads and writes inputFrameCnt and
\* hDeviceName only, and the worker reads inputFrameCnt once, before its loop
\* (line 324).
OptionNext ==
    \/ audio_create
    \/ audio_create_return
    \/ ActivateCompleted
    \/ audio_setcallbacks
    \/ audio_setcallbacks_assign
    \/ audio_input_start
    \/ audio_input_start_spawn
    \/ audio_input_start_native
    \/ audio_set_options
    \/ capture_entry
    \/ capture_set_running
    \/ capture_get_service
    \/ capture_alloc
    \/ capture_exit
    \/ capture_exit_cb

OptionSpec == Init /\ [][OptionNext]_vars

\* The session whose application registers callbacks up to MaxRaceRegs times,
\* also while the worker delivers frames; no stop, no destroy.
RaceNext ==
    \/ audio_create
    \/ audio_create_return
    \/ ActivateCompleted
    \/ audio_setcallbacksN(MaxRaceRegs)
    \/ audio_setcallbacks_assign
    \/ audio_input_start
    \/ audio_input_start_spawn
    \/ audio_input_start_native
    \/ Worker
    \/ DevicePacket

RaceSpec == Init /\ [][RaceNext]_vars

\* every thread that can take a step eventually takes one: a call in progress
\* goes on, the platform runs the completion handler, the worker runs
FairSpec ==
    /\ Spec
    /\ WF_vars(ControllerStep)
    /\ WF_vars(ActivateCompleted)
    /\ WF_vars(Worker)


\* ------------------------------------------------------------------ claims

\* a call has returned
Returned(o) == op = o /\ ctl = "idle"

\* C1: a start call that finds the persisted input state RUNNING returns
\* INVALID_STATE at once: it spawns no capture thread and does not call the
\* native client's Start.
C1_StartWhileRunningRefused ==
    (op = "start" /\ seenState = RUNNING) =>
        (ctl = "idle" /\ result = INVALID_STATE /\ eff = {})

\* C1 witness: start was refused on a RUNNING session whose worker is live
C1_Witness ==
    /\ Returned("start")
    /\ seenState = RUNNING
    /\ result = INVALID_STATE
    /\ WorkerLive
    /\ spawned = 1

\* C2: at the moment start returns OK the persisted input state is RUNNING.
C2_StartOKMeansRunning ==
    [][(ctl = "start_native" /\ ctl' = "idle" /\ result' = OK)
          => current_input_state' = RUNNING]_vars

\* C3: when stop has returned OK the worker has left captureThreadProc and has
\* been joined, the thread handle is not joinable and the persisted state is
\* STOPPED; the start that follows it is not refused and spawns a fresh worker.
C3_StopJoinsAndStartRespawns ==
    /\ (Returned("stop") /\ result = OK) =>
          /\ "join" \in eff
          /\ ~joinable
          /\ ~WorkerLive
          /\ current_input_state = STOPPED
    /\ (Returned("start") /\ prev = <<"stop", OK>>) =>
          /\ result \in {OK, ERROR}
          /\ "spawn" \in eff

\* C3 witness: the last worker the bound allows was spawned by a start that
\* followed a successful stop
C3_Witness ==
    /\ Returned("start")
    /\ prev = <<"stop", OK>>
    /\ "spawn" \in eff
    /\ spawned = MaxSpawns

\* a stop call has passed its state check and has not returned
StopInProgress == ctl \in {"stop_native", "stop_signal", "stop_join"}

\* C4: a stop call that found the persisted state RUNNING eventually returns OK.
C4_StopReturns ==
    StopInProgress ~> (Returned("stop") /\ result = OK)

\* the stop protocol itself: such a stop call returns OK unless the process is
\* ended meanwhile
StopReturnsUnlessTerminated ==
    StopInProgress ~> ((Returned("stop") /\ result = OK) \/ terminated)

\* C5: a start that returns OK after the worker left its loop on a platform
\* error (and forced the state to STOPPED) has given the session a new worker.
C5_StartAfterErrorRespawns ==
    (Returned("start") /\ result = OK /\ seenExit = "error") => "spawn" \in eff

\* C6: destroy does not release the client, close the events or free the
\* session while a capture worker is live or the thread handle is joinable.
C6_DestroyOnlyWithoutWorker ==
    (op = "destroy" /\ eff # {}) => (~WorkerLive /\ ~joinable)

\* C7: a stop call that finds the persisted input state STOPPED returns
\* INVALID_STATE at once: no native Stop, no SetEvent on the shutdown event, no
\* join.
C7_StopWhileStoppedRefused ==
    (op = "stop" /\ seenState = STOPPED) =>
        (ctl = "idle" /\ result = INVALID_STATE /\ eff = {})

\* C7 witness: stop was refused after the worker had forced the state to
\* STOPPED, and the thread handle was left as it was
C7_Witness ==
    /\ Returned("stop")
    /\ seenState = STOPPED
    /\ result = INVALID_STATE
    /\ seenExit = "error"
    /\ joinable

\* the worker has stopped running captureThreadProc, by returning from it or by
\* an exception leaving it
WorkerOver == wpc \in {"done", "threw"}

\* C8: a worker that is over has run its exit path exactly once: the scratch
\* buffer is not left allocated, the persisted state was set to STOPPED, and a
\* registered input-state callback got STOPPED exactly once from the exit path.
C8_ExitPathOnce ==
    WorkerOver =>
        /\ exitRuns = 1
        /\ scratch # "allocated"
        /\ current_input_state = STOPPED
        /\ (slots["input_state_cb"] # Null => exitStoppedCbs = 1)

\* C9: once the completion handler has been left, the result slot has been
\* written exactly once; create returns only after the write, and returns null
\* exactly when the written result is a failure.
C9_PromiseSetOnce ==
    /\ actPc \in {"returned", "faulted"} => promiseWrites = 1
    /\ (Returned("create") /\ actPc # "none") =>
          /\ promiseWrites = 1
          /\ (result = NULLHANDLE) <=> (m_promise # S_OK)

\* the activation of the create call has failed: the request was rejected, the
\* handler reported a failure, or the handler was left on a failure path
ActivationFailed ==
    /\ op = "create"
    /\ \/ Returned("create") /\ actPc = "none"
       \/ m_promise = E_FAIL
       \/ actPc = "faulted"

\* C10: when activation fails, create returns a null handle, and no event and
\* no thread was created during the call.
C10_FailedCreateCreatesNothing ==
    (ActivationFailed /\ (ctl = "idle" \/ terminated)) =>
        /\ result = NULLHANDLE
        /\ signalsCreated = 0
        /\ spawned = 0

\* C11: a setCallbacks call with a null write callback or a null handle
\* returns INVALID_ARG, and every registration slot holds after the call what
\* it held before it.
C11_RefusedSetcbChangesNothing ==
    [][(audio_setcallbacks /\ (handle = "null" \/ args'["audio_write_cb"] = Null)) =>
          (ctl' = "idle" /\ result' = INVALID_ARG /\ slots' = slots)]_vars

\* C11 witness: a call without a write callback was refused on a session that
\* has callbacks registered, and they are still the registered ones
C11_Witness ==
    /\ Returned("setcallbacks")
    /\ handle = "valid"
    /\ args["audio_write_cb"] = Null
    /\ result = INVALID_ARG
    /\ registered = 1
    /\ slots["audio_write_cb"] = <<"audio_write_cb", 1>>
    /\ slots["user_write_ctx"] = <<"audio_write_ctx", 1>>

\* C12: when a setCallbacks call has returned OK, every registration slot
\* holds the corresponding argument of that call; in particular the stored
\* error context is the error_ctx argument.
C12_SlotsHoldArguments ==
    (Returned("setcallbacks") /\ result = OK) =>
        /\ slots["output_state_cb"] = args["output_cb"]
        /\ slots["user_outputctx"] = args["output_ctx"]
        /\ slots["input_state_cb"] = args["input_cb"]
        /\ slots["user_inputctx"] = args["input_ctx"]
        /\ slots["audio_write_cb"] = args["audio_write_cb"]
        /\ slots["user_write_ctx"] = args["audio_write_ctx"]
        /\ slots["error_cb"] = args["error_cb"]
        /\ slots["user_errorctx"] = args["error_ctx"]

\* the slots other than the error context do hold their arguments
SlotsHoldArgumentsButErrorCtx ==
    (Returned("setcallbacks") /\ result = OK) =>
        /\ slots["output_state_cb"] = args["output_cb"]
        /\ slots["user_outputctx"] = args["output_ctx"]
        /\ slots["input_state_cb"] = args["input_cb"]
        /\ slots["user_inputctx"] = args["input_ctx"]
        /\ slots["audio_write_cb"] = args["audio_write_cb"]
        /\ slots["user_write_ctx"] = args["audio_write_ctx"]
        /\ slots["error_cb"] = args["error_cb"]
        /\ slots["user_errorctx"] = args["error_cb"]

\* C13: every frame-write invocation of the worker uses a write callback and
\* a write context that one and the same setCallbacks call registered (the
\* second component of a callback or context is the number of its
\* registration).
C13_WritePairFromOneRegistration ==
    lastWrite[1][2] = lastWrite[2][2]

\* C14: a setOption call with a null handle, or with a name that is neither
\* the frame-count nor the device-name option, returns INVALID_ARG and leaves
\* the frame count, the device name, the persisted state and the registration
\* slots as they were.
C14_RefusedOptionChangesNothing ==
    [][(audio_set_options
          /\ (handle = "null" \/ optionArg'[1] \notin {"frame_count", "devicename"})) =>
          /\ ctl' = "idle"
          /\ result' = INVALID_ARG
          /\ UNCHANGED <<inputFrameCnt, hDeviceName, current_input_state, slots>>]_vars

\* C14 witness: an unknown option was refused on a running session that has
\* callbacks registered and a device name set, and these are all still there
C14_Witness ==
    /\ Returned("set_options")
    /\ handle = "valid"
    /\ optionArg[1] = "other"
    /\ result = INVALID_ARG
    /\ hDeviceName = <<"string", 320>>
    /\ inputFrameCnt = DefaultFrameCnt
    /\ current_input_state = RUNNING
    /\ slots["audio_write_cb"] # Null

\* C15: the session's code never gives up more references to the client than
\* it has taken.
C15_ReleasesBalanced == clientRel <= clientAcq

\* C16: a live capture worker is always the one the joinable thread handle
\* stands for, and start creates a worker only when the handle is not
\* joinable, that is when no worker is live or waiting to be joined.
C16_OneWorker ==
    [][/\ WorkerLive => joinable
       /\ spawned' # spawned => (~joinable /\ ~WorkerLive /\ spawned' = spawned + 1)]_vars

\* C16 witness: a second worker is live, created after the first was joined
C16_Witness ==
    /\ spawned = 2
    /\ WorkerLive
    /\ joinable

\* C17: the persisted input state is STOPPED or RUNNING in every state;
\* STARTING is never stored.
C17_PersistedStates == current_input_state \in {STOPPED, RUNNING}

\* C17 witness: the worker has reported STARTING to the input-state callback
\* and the persisted state has gone from STOPPED to RUNNING
C17_Witness ==
    /\ wpc = "get_service"
    /\ firstEvent = STARTING
    /\ lastEvent = STARTING
    /\ current_input_state = RUNNING

\* C18: a frame is handed to the write callback only while the persisted
\* input state is RUNNING.
C18_FramesOnlyWhileRunning ==
    [][(capture_deliver /\ packets' # packets) => current_input_state = RUNNING]_vars

\* C19: when stop has returned OK, the shutdown signal is not set: the worker
\* that stop ended has consumed it.
C19_ShutdownSignalConsumed ==
    (Returned("stop") /\ result = OK) => hCaptureThreadShouldExit # "set"

\* the events of a worker that runs with an input-state callback registered
\* are ordered while the process lives: STARTING comes first, before RUNNING
\* is stored and before any frame, STOPPED from the exit path comes last
EventsOrderedUnlessThrown ==
    slots["input_state_cb"] # Null =>
        /\ wpc \notin {"none", "entry"} => firstEvent = STARTING
        /\ wpc = "done" => lastEvent = "STOPPED at exit"

\* C20: for every capture worker that runs with an input-state callback
\* registered, STARTING is the first event, issued before RUNNING is stored
\* and before any frame, and once the worker is over the last event is
\* STOPPED from the exit path.
C20_EventsOrdered ==
    slots["input_state_cb"] # Null =>
        /\ wpc \notin {"none", "entry"} => firstEvent = STARTING
        /\ WorkerOver => lastEvent = "STOPPED at exit"

====
